---------------------------- MODULE Spec2Model ----------------------------
(***************************************************************************)
(* State-synchronisation core of the weather dashboard (App component):    *)
(* location search / geocoding, the forecast cycle of the                  *)
(* (selectedLocation, units) pair with its 1 s auto-refresh, the selected  *)
(* forecast day, the localStorage persistence and the 60 s page reload.    *)
(*                                                                         *)
(* Text is a sequence of tokens (words, " " and ","), so that trim() and   *)
(* the "{name}, {country}" formatting are computed, not assumed.  A        *)
(* nullable string is the string or Null; nullable WeatherData and the     *)
(* items of localStorage are sequences of length 0 (null) or 1.  An object  *)
(* is the function from its keys to their values, a property whose value   *)
(* is undefined being the same as a missing one.                           *)
(***************************************************************************)
EXTENDS Naturals, Sequences, FiniteSets, Bags

VARIABLES
    searchTerm,        \* useState(savedSearchTerm)
    searchResults,     \* useState<LocationMatch[]>([])
    searchStatus,      \* 'idle' | 'loading' | 'error' | 'no-results'
    searchError,       \* string | null
    selectedLocation,  \* useState<LocationMatch>(savedLocation)
    units,             \* 'metric' | 'imperial'
    weatherData,       \* WeatherData | null
    weatherStatus,     \* 'idle' | 'loading' | 'ready' | 'error'
    weatherError,      \* string | null
    selectedDay,       \* string | null
    storedLocation,    \* localStorage item 'selectedLocation'
    storedSearchTerm,  \* localStorage item 'searchTerm'
    forecastRequests,  \* bag of fetchWeatherForecast calls awaiting their result
    geocodeRequests,   \* bag of geocodeLocation calls awaiting their result
    lastOp,            \* history: the operation that produced this state
    opCount,           \* history: operations performed since the page was loaded
    storedAtStartup,   \* history: the two localStorage items when the page was loaded
    lastSelectResult,  \* history: the location of the last onSelectResult of this page
    lastSelection,     \* history: the location last given to handleLocationSelection
    writeFailed        \* history: a localStorage.setItem of this page has thrown

vars == <<searchTerm, searchResults, searchStatus, searchError, selectedLocation,
          units, weatherData, weatherStatus, weatherError, selectedDay,
          storedLocation, storedSearchTerm, forecastRequests, geocodeRequests,
          lastOp, opCount, storedAtStartup, lastSelectResult, lastSelection,
          writeFailed>>

searchVars == <<searchTerm, searchResults, searchStatus, searchError>>
forecastVars == <<weatherData, weatherStatus, weatherError, selectedDay>>
storageVars == <<storedLocation, storedSearchTerm>>
selectionHistory == <<storedAtStartup, lastSelectResult, lastSelection, writeFailed>>

-----------------------------------------------------------------------------
(* Bounds of the model *)

\* Operations (user actions, timer ticks, responses) between two page loads.
\* The page reloads itself every 60 s, so every page life is finite.
MaxOps == 5

\* The same, where responses are never held back: the operations of a page
\* life after which only the responses still awaited (and the reload) come.
MaxLiveOps == 3

-----------------------------------------------------------------------------
(* Values *)

Null == "null"
Undefined == "undefined"

DEFAULT_LOCATION ==
    [id |-> "5391959", name |-> "San Francisco", admin1 |-> "California",
     country |-> "United States", latitude |-> "37.7749",
     longitude |-> "-122.4194", timezone |-> "America/Los_Angeles"]

\* A geocode match without admin1 and with an empty country.
OtherLocation ==
    [id |-> "42", name |-> "Null Island", country |-> "",
     latitude |-> "0", longitude |-> "0", timezone |-> "UTC"]

LocationMatches == {DEFAULT_LOCATION, OtherLocation}

MeasurementSystems == {"metric", "imperial"}

\* Results geocodeLocation can resolve with: no, one or two matches.
GeocodeResults == {<<>>, <<OtherLocation>>, <<DEFAULT_LOCATION, OtherLocation>>}

\* dayOrder lists fetchWeatherForecast can resolve with.
DayOrders == {<<>>, <<"d1", "d2">>, <<"d2", "d3">>}

Days == UNION {{dayOrder[i] : i \in 1..Len(dayOrder)} : dayOrder \in DayOrders}

\* Values a rejected promise can carry: an Error with a message, or another value.
Thrown == {[isError |-> TRUE, message |-> "Network down"],
           [isError |-> FALSE, message |-> Undefined]}

\* Texts the user types into the search box.
TypedTexts == {<<" ">>, <<" ", "Paris", " ">>}

\* A localStorage value JSON.parse throws on.
CorruptJson == <<"{">>

\* A localStorage value JSON.parse accepts and that is no LocationMatch: "{}".
EmptyObjectJson == <<"{", "}">>

LocationKeys == <<"id", "name", "country", "admin1", "latitude", "longitude", "timezone">>

-----------------------------------------------------------------------------
(* Pure functions *)

Range(s) == {s[i] : i \in 1..Len(s)}

IsSpace(tok) == tok = " "

\* String.prototype.trim: drops leading and trailing white space.
RECURSIVE TrimStart(_)
TrimStart(s) ==
    IF s # <<>> /\ IsSpace(Head(s)) THEN TrimStart(Tail(s)) ELSE s

RECURSIVE TrimEnd(_)
TrimEnd(s) ==
    IF s # <<>> /\ IsSpace(s[Len(s)]) THEN TrimEnd(SubSeq(s, 1, Len(s) - 1)) ELSE s

\* Mutant of Trim: the text is taken as typed.
TrimNothing(s) == s

Trim(s) == TrimEnd(TrimStart(s))

\* obj.key of a JavaScript object: undefined when the key is missing.
Get(obj, key) == IF key \in DOMAIN obj THEN obj[key] ELSE Undefined

\* Mutant of LocationString: the separator is written whatever the country.
LocationStringAlways(loc) ==
    <<Get(loc, "name"), ",", " ", Get(loc, "country")>>

\* `${name}${country ? `, ${country}` : ''}`
LocationString(loc) ==
    IF Get(loc, "country") \notin {"", Undefined, Null}
    THEN <<Get(loc, "name"), ",", " ", Get(loc, "country")>>
    ELSE <<Get(loc, "name")>>

\* The object literal of handleLocationSelection: a fresh object of seven fields.
NewLocation(location) ==
    [key \in {k \in Range(LocationKeys) : Get(location, k) # Undefined} |-> location[key]]

\* JSON.stringify of an object: "{", then key and value of every property whose
\* value is not undefined, then "}".
RECURSIVE StringifyKeys(_, _)
StringifyKeys(obj, keys) ==
    IF keys = <<>> THEN <<>>
    ELSE (IF Get(obj, Head(keys)) = Undefined THEN <<>>
          ELSE <<Head(keys), obj[Head(keys)]>>) \o StringifyKeys(obj, Tail(keys))

JsonStringify(obj) == <<"{">> \o StringifyKeys(obj, LocationKeys) \o <<"}">>

\* JSON.parse: throws unless the text is "{" key value ... "}".
JsonParses(s) ==
    /\ Len(s) >= 2
    /\ s[1] = "{"
    /\ s[Len(s)] = "}"
    /\ Len(s) % 2 = 0

JsonParse(s) ==
    LET n == (Len(s) - 2) \div 2
        keys == {s[2 * i] : i \in 1..n}
    IN [k \in keys |-> s[(CHOOSE i \in 1..n : s[2 * i] = k) * 2 + 1]]

\* Mutant of FirstDayOrNull: the last day instead of the first.
LastDayOrNull(dayOrder) == IF Len(dayOrder) > 0 THEN dayOrder[Len(dayOrder)] ELSE Null

\* data.dayOrder[0] ?? null
FirstDayOrNull(dayOrder) == IF Len(dayOrder) > 0 THEN dayOrder[1] ELSE Null

\* Mutant of ErrorMessage: the message of the error is never used.
ErrorMessageDropped(error, fallback) == fallback

\* error instanceof Error ? error.message : fallback
ErrorMessage(error, fallback) == IF error.isError THEN error.message ELSE fallback


\* fetchWeatherForecast(location, units) resolving: the payload carries the
\* location snapshot and the units it was requested for, and a dayOrder.
WeatherDataOf(location, measurement, dayOrder) ==
    [location |-> location, units |-> measurement, dayOrder |-> dayOrder]

-----------------------------------------------------------------------------
(* Startup: the useState initialisers and the first run of the effects *)

\* if (saved) of a localStorage item: neither null nor the empty string.
Truthy(item) == item # <<>> /\ item[1] # <<>>

loadSavedLocation(item, readable) ==
    IF readable /\ Truthy(item) /\ JsonParses(item[1])
    THEN JsonParse(item[1])
    ELSE DEFAULT_LOCATION

\* Mutant of loadSavedSearchTerm: the stored text is never used.
loadSavedSearchTermNever(item, readable) == LocationString(DEFAULT_LOCATION)

loadSavedSearchTerm(item, readable) ==
    IF readable /\ Truthy(item) THEN item[1] ELSE LocationString(DEFAULT_LOCATION)

\* Mutant of ForecastRequest: the call is made for metric units whatever the
\* units of the cycle.
ForecastRequestMetric(auto, location, measurement) ==
    [auto |-> auto, active |-> TRUE, location |-> location, units |-> "metric"]

\* One call of fetchWeatherForecast awaiting its result: the mode of the
\* fetchWeather call, the isActive flag of the cycle that issued it, and the
\* selectedLocation and units of its closure.
ForecastRequest(auto, location, measurement) ==
    [auto |-> auto, active |-> TRUE, location |-> location, units |-> measurement]

\* Mutant of Cleanup: the flag of the running cycle is left set.
CleanupNothing(requests) == requests

\* The cleanup of the cycle effect: isActive = false for the running cycle.
\* Its requests stay in flight; clearInterval stops its ticks.
Cleanup(requests) ==
    LET stale == {[r EXCEPT !.active = FALSE] : r \in BagToSet(requests)}
    IN [r \in stale |-> CopiesIn(r, requests)
                        + CopiesIn([r EXCEPT !.active = TRUE], requests)]

\* An operation and its inputs.
Op(op, arg) == [op |-> op, arg |-> arg]

\* One more operation in the life of the page.
CountOp ==
    /\ opCount < MaxOps
    /\ opCount' = opCount + 1

\* Mutant of StartCycle: the initial fetch does not set the loading status.
StartCycleSilently(location, measurement) ==
    /\ weatherError' = Null
    /\ forecastRequests' =
           Cleanup(forecastRequests) (+) SetToBag({ForecastRequest(FALSE, location, measurement)})
    /\ UNCHANGED <<weatherData, selectedDay, weatherStatus>>

\* The body of the cycle effect for a new (selectedLocation, units) pair: the
\* previous cycle's cleanup, then fetchWeather() up to its await.
StartCycle(location, measurement) ==
    /\ weatherStatus' = "loading"
    /\ weatherError' = Null
    /\ forecastRequests' =
           Cleanup(forecastRequests) (+) SetToBag({ForecastRequest(FALSE, location, measurement)})
    /\ UNCHANGED <<weatherData, selectedDay>>

\* The state of a freshly loaded page once it is mounted.  readable: whether
\* localStorage.getItem returns (TRUE) or throws (FALSE) during this load.
Startup(readable) ==
    /\ searchTerm' = loadSavedSearchTerm(storedSearchTerm', readable)
    /\ searchResults' = <<>>
    /\ searchStatus' = "idle"
    /\ searchError' = Null
    /\ selectedLocation' = loadSavedLocation(storedLocation', readable)
    /\ units' = "metric"
    /\ weatherData' = <<>>
    /\ weatherStatus' = "loading"
    /\ weatherError' = Null
    /\ selectedDay' = Null
    /\ forecastRequests' = SetToBag({ForecastRequest(FALSE, selectedLocation', "metric")})
    /\ geocodeRequests' = EmptyBag
    /\ storedAtStartup' = <<storedLocation', storedSearchTerm'>>
    /\ lastSelectResult' = <<>>
    /\ lastSelection' = <<>>
    /\ writeFailed' = FALSE

\* What a page load can find in localStorage: nothing, a selectedLocation that
\* does not parse, one that parses to an object without the fields of a
\* LocationMatch, or what an earlier selection wrote.
StoredAtLoad ==
    {<<<<>>, <<>>>>,
     <<<<CorruptJson>>, <<>>>>,
     <<<<EmptyObjectJson>>, <<>>>>,
     <<<<JsonStringify(OtherLocation)>>, <<LocationString(OtherLocation)>>>>}

Init ==
    /\ \E stored \in StoredAtLoad :
        /\ storedLocation = stored[1]
        /\ storedSearchTerm = stored[2]
    /\ \E readable \in BOOLEAN :
        /\ searchTerm = loadSavedSearchTerm(storedSearchTerm, readable)
        /\ selectedLocation = loadSavedLocation(storedLocation, readable)
        /\ lastOp = Op("load", <<readable>>)
    /\ searchResults = <<>>
    /\ searchStatus = "idle"
    /\ searchError = Null
    /\ units = "metric"
    /\ weatherData = <<>>
    /\ weatherStatus = "loading"
    /\ weatherError = Null
    /\ selectedDay = Null
    /\ forecastRequests = SetToBag({ForecastRequest(FALSE, selectedLocation, "metric")})
    /\ geocodeRequests = EmptyBag
    /\ opCount = 0
    /\ storedAtStartup = <<storedLocation, storedSearchTerm>>
    /\ lastSelectResult = <<>>
    /\ lastSelection = <<>>
    /\ writeFailed = FALSE

\* What the page that a reload throws away was holding: the text of the
\* search box and the numbers of forecast and geocode calls awaiting a result.
Unloaded ==
    [searchTerm |-> searchTerm,
     forecastRequests |-> BagCardinality(forecastRequests),
     geocodeRequests |-> BagCardinality(geocodeRequests)]

\* window.location.reload() of the 60 s timer: the page, its timers and its
\* pending promises are gone; the new page starts from localStorage.
Reload ==
    /\ UNCHANGED storageVars
    /\ \E readable \in BOOLEAN :
        /\ Startup(readable)
        /\ lastOp' = Op("reload", <<readable, Unloaded>>)
    /\ opCount' = 0

-----------------------------------------------------------------------------
(* Search *)

\* Mutant of SetSearchTerm: the text being edited is saved as it is typed.
SetSearchTermPersisting(text) ==
    /\ searchTerm' = text
    /\ storedSearchTerm' = <<text>>
    /\ CountOp
    /\ lastOp' = Op("setSearchTerm", <<text>>)
    /\ UNCHANGED <<searchResults, searchStatus, searchError, selectedLocation, units,
                   forecastVars, storedLocation, forecastRequests, geocodeRequests,
                   selectionHistory>>

\* SearchForm onChange={setSearchTerm}
SetSearchTerm(text) ==
    /\ searchTerm' = text
    /\ CountOp
    /\ lastOp' = Op("setSearchTerm", <<text>>)
    /\ UNCHANGED <<searchResults, searchStatus, searchError, selectedLocation, units,
                   forecastVars, storageVars, forecastRequests, geocodeRequests,
                   selectionHistory>>

\* !query of a string: the empty string is falsy.
EmptyQuery(query) == Len(query) = 0

\* handleSearch up to its await (or to its early return).
HandleSearch ==
    LET query == Trim(searchTerm) IN
    IF EmptyQuery(query)
    THEN /\ searchStatus' = "no-results"
         /\ searchResults' = <<>>
         /\ weatherData' = <<>>
         /\ weatherStatus' = "idle"
         /\ CountOp
         /\ lastOp' = Op("submit", <<>>)
         /\ UNCHANGED <<searchTerm, searchError, selectedLocation, units, weatherError,
                        selectedDay, storageVars, forecastRequests, geocodeRequests,
                        selectionHistory>>
    ELSE /\ searchStatus' = "loading"
         /\ searchError' = Null
         /\ geocodeRequests' = geocodeRequests (+) SetToBag({query})
         /\ CountOp
         /\ lastOp' = Op("submit", <<>>)
         /\ UNCHANGED <<searchTerm, searchResults, selectedLocation, units, forecastVars,
                        storageVars, forecastRequests, selectionHistory>>

\* Mutant of NoMatches: a single match is treated as none.
NoMatchesOrOne(results) == Len(results) <= 1

\* results.length === 0
NoMatches(results) == Len(results) = 0

\* handleSearch after its await, geocodeLocation resolved with results.
GeocodeResolve(query, results) ==
    /\ BagIn(query, geocodeRequests)
    /\ geocodeRequests' = geocodeRequests (-) SetToBag({query})
    /\ IF NoMatches(results)
       THEN /\ searchResults' = <<>>
            /\ searchStatus' = "no-results"
            /\ weatherData' = <<>>
            /\ weatherStatus' = "idle"
       ELSE /\ searchResults' = results
            /\ searchStatus' = "idle"
            /\ UNCHANGED <<weatherData, weatherStatus>>
    /\ CountOp
    /\ lastOp' = Op("geocodeResolve", <<query, results>>)
    /\ UNCHANGED <<searchTerm, searchError, selectedLocation, units, weatherError,
                   selectedDay, storageVars, forecastRequests, selectionHistory>>

\* handleSearch after its await, geocodeLocation rejected with error.
GeocodeReject(query, error) ==
    /\ BagIn(query, geocodeRequests)
    /\ geocodeRequests' = geocodeRequests (-) SetToBag({query})
    /\ searchStatus' = "error"
    /\ searchError' = ErrorMessage(error, "Unknown error")
    /\ weatherData' = <<>>
    /\ weatherStatus' = "idle"
    /\ CountOp
    /\ lastOp' = Op("geocodeReject", <<query, error>>)
    /\ UNCHANGED <<searchTerm, searchResults, selectedLocation, units, weatherError,
                   selectedDay, storageVars, forecastRequests, selectionHistory>>

-----------------------------------------------------------------------------
(* Selection of a location *)

\* Outcomes of the two localStorage.setItem calls inside the try block.
WriteOutcomes == {"both", "first", "none"}

\* handleLocationSelection(location), with the re-run of the cycle effect that
\* the new selectedLocation object causes.
handleLocationSelection(location, outcome, name) ==
    LET newLocation == NewLocation(location)
        locationString == LocationString(newLocation)
    IN
    /\ selectedLocation' = newLocation
    /\ searchTerm' = locationString
    /\ searchStatus' = "idle"
    /\ searchResults' = <<>>
    /\ storedLocation' = IF outcome \in {"both", "first"}
                         THEN <<JsonStringify(newLocation)>> ELSE storedLocation
    /\ storedSearchTerm' = IF outcome = "both" THEN <<locationString>> ELSE storedSearchTerm
    /\ StartCycle(newLocation, units)
    /\ CountOp
    /\ lastOp' = Op(name, <<location, outcome>>)
    /\ lastSelection' = <<location>>
    /\ lastSelectResult' = IF name = "selectResult" THEN <<location>> ELSE lastSelectResult
    /\ writeFailed' = (writeFailed \/ outcome # "both")
    /\ UNCHANGED <<searchError, units, geocodeRequests, storedAtStartup>>

\* SearchForm onSelectResult
OnSelectResult(i, outcome) ==
    /\ i \in 1..Len(searchResults)
    /\ handleLocationSelection(searchResults[i], outcome, "selectResult")

\* The "Try again" button of the forecast error panel.
TryAgain(outcome) ==
    /\ weatherStatus = "error"
    /\ searchStatus # "no-results"
    /\ handleLocationSelection(selectedLocation, outcome, "tryAgain")

\* UnitsMenu onChange={setUnits}: a different value re-runs the cycle effect.
SetUnits(measurement) ==
    /\ measurement # units
    /\ units' = measurement
    /\ StartCycle(selectedLocation, measurement)
    /\ CountOp
    /\ lastOp' = Op("setUnits", <<measurement>>)
    /\ UNCHANGED <<searchVars, selectedLocation, storageVars, geocodeRequests,
                   selectionHistory>>

-----------------------------------------------------------------------------
(* Forecast cycle *)

\* The forecast section is rendered (App render guard).
ForecastShown ==
    /\ weatherStatus = "ready"
    /\ weatherData # <<>>
    /\ searchStatus # "no-results"

\* onSelectDay={setSelectedDay}, from a button of weatherData.dayOrder.
SelectDay(day) ==
    /\ ForecastShown
    /\ day \in Range(weatherData[1].dayOrder)
    /\ selectedDay' = day
    /\ CountOp
    /\ lastOp' = Op("selectDay", <<day>>)
    /\ UNCHANGED <<searchVars, selectedLocation, units, weatherData, weatherStatus,
                   weatherError, storageVars, forecastRequests, geocodeRequests,
                   selectionHistory>>

\* Mutant of AutoRefreshTick: no tick while the initial fetch of the running
\* cycle awaits its result.
AutoRefreshTickAfterInitial ==
    /\ \A r \in BagToSet(forecastRequests) : ~(r.active /\ ~r.auto)
    /\ weatherError' = Null
    /\ forecastRequests' =
           forecastRequests (+) SetToBag({ForecastRequest(TRUE, selectedLocation, units)})
    /\ CountOp
    /\ lastOp' = Op("tick", <<ForecastRequest(TRUE, selectedLocation, units)>>)
    /\ UNCHANGED <<searchVars, selectedLocation, units, weatherData, weatherStatus,
                   selectedDay, storageVars, geocodeRequests, selectionHistory>>

\* The setInterval callback of the running cycle: fetchWeather(true) up to its await.
AutoRefreshTick ==
    /\ weatherError' = Null
    /\ forecastRequests' =
           forecastRequests (+) SetToBag({ForecastRequest(TRUE, selectedLocation, units)})
    /\ CountOp
    /\ lastOp' = Op("tick", <<ForecastRequest(TRUE, selectedLocation, units)>>)
    /\ UNCHANGED <<searchVars, selectedLocation, units, weatherData, weatherStatus,
                   selectedDay, storageVars, geocodeRequests, selectionHistory>>

\* Mutant of Discarded: the isActive check is missing.
DiscardedNever(request) == FALSE

\* Mutant of Discarded: responses are fenced, the initial response is dropped
\* once a later request of the cycle has shown its result.
DiscardedWhenOvertaken(request) ==
    ~request.active \/ (~request.auto /\ weatherStatus = "ready")

\* Mutant of Discarded: no response is ever applied.
DiscardedAlways(request) == TRUE

\* if (!isActive) return
Discarded(request) == ~request.active

\* Mutant of StickyDay: the selection is reset on every auto-refresh.
StickyDayResets(prevDay, dayOrder) == FirstDayOrNull(dayOrder)

\* Mutant of StickyDay: the previous day is kept without looking at dayOrder.
StickyDayKeepsAny(prevDay, dayOrder) ==
    IF prevDay \notin {Null, ""} THEN prevDay ELSE FirstDayOrNull(dayOrder)

\* The updater of setSelectedDay on auto-refresh (sticky selection).
StickyDay(prevDay, dayOrder) ==
    IF prevDay \notin {Null, ""} /\ prevDay \in Range(dayOrder)
    THEN prevDay
    ELSE FirstDayOrNull(dayOrder)

\* fetchWeather after its await, fetchWeatherForecast resolved.
ForecastResolve(request, dayOrder) ==
    LET data == WeatherDataOf(request.location, request.units, dayOrder) IN
    /\ BagIn(request, forecastRequests)
    /\ forecastRequests' = forecastRequests (-) SetToBag({request})
    /\ IF Discarded(request)
       THEN UNCHANGED forecastVars
       ELSE /\ weatherData' = <<data>>
            /\ selectedDay' = IF ~request.auto
                              THEN FirstDayOrNull(data.dayOrder)
                              ELSE StickyDay(selectedDay, data.dayOrder)
            /\ weatherStatus' = "ready"
            /\ UNCHANGED weatherError
    /\ CountOp
    /\ lastOp' = Op("forecastResolve", <<request, dayOrder, weatherStatus, selectedDay>>)
    /\ UNCHANGED <<searchVars, selectedLocation, units, storageVars, geocodeRequests,
                   selectionHistory>>

\* fetchWeather after its await, fetchWeatherForecast rejected.
ForecastReject(request, error) ==
    /\ BagIn(request, forecastRequests)
    /\ forecastRequests' = forecastRequests (-) SetToBag({request})
    /\ IF Discarded(request) \/ request.auto
       THEN UNCHANGED forecastVars
       ELSE /\ weatherStatus' = "error"
            /\ weatherError' = ErrorMessage(error, "Unable to load forecast")
            /\ UNCHANGED <<weatherData, selectedDay>>
    /\ CountOp
    /\ lastOp' = Op("forecastReject", <<request, error>>)
    /\ UNCHANGED <<searchVars, selectedLocation, units, storageVars, geocodeRequests,
                   selectionHistory>>

-----------------------------------------------------------------------------

Next ==
    \/ Reload
    \/ \E text \in TypedTexts : SetSearchTerm(text)
    \/ HandleSearch
    \/ \E query \in BagToSet(geocodeRequests), results \in GeocodeResults :
           GeocodeResolve(query, results)
    \/ \E query \in BagToSet(geocodeRequests), error \in Thrown :
           GeocodeReject(query, error)
    \/ \E i \in 1..2, outcome \in WriteOutcomes : OnSelectResult(i, outcome)
    \/ \E outcome \in WriteOutcomes : TryAgain(outcome)
    \/ \E measurement \in MeasurementSystems : SetUnits(measurement)
    \/ \E day \in Days : SelectDay(day)
    \/ AutoRefreshTick
    \/ \E request \in BagToSet(forecastRequests), dayOrder \in DayOrders :
           ForecastResolve(request, dayOrder)
    \/ \E request \in BagToSet(forecastRequests), error \in Thrown :
           ForecastReject(request, error)

Spec == Init /\ [][Next]_vars


-----------------------------------------------------------------------------
(* Steps, as the history variable tells them *)

\* This step applied (or discarded) the result of a forecast request.
ForecastResolved == lastOp'.op = "forecastResolve"
ForecastRejected == lastOp'.op = "forecastReject"
ForecastResponded == ForecastResolved \/ ForecastRejected

\* The request a forecast step (tick or response) is about.
StepRequest == lastOp'.arg[1]

\* This step started a new forecast cycle on the running page.
CycleRestarted == lastOp'.op \in {"selectResult", "tryAgain", "setUnits"}

-----------------------------------------------------------------------------
(* C1 *)

\* C1: a success or failure response of a request whose cycle has been torn
\* down (the (location, units) pair changed since it was issued) changes none
\* of WeatherData, forecast status, forecast error message and SelectedDay.
C1_StaleResponseDiscarded ==
    [][(ForecastResponded /\ ~StepRequest.active) => UNCHANGED forecastVars]_vars

\* The pair changed twice (two torn-down cycles), the current cycle has shown
\* its result, and a late success of a torn-down cycle has just been discarded
\* while a request of the other torn-down cycle is still in flight.
C1_Witness ==
    /\ lastOp.op = "forecastResolve"
    /\ ~lastOp.arg[1].active
    /\ weatherStatus = "ready"
    /\ weatherData # <<>>
    /\ weatherData[1].dayOrder # lastOp.arg[2]
    /\ \E r \in BagToSet(forecastRequests) : ~r.active /\ r.units # lastOp.arg[1].units

-----------------------------------------------------------------------------
(* C2 *)

\* C2: an auto-refresh attempt that fails leaves forecast status, forecast
\* error message and WeatherData as they were before the attempt: neither the
\* tick that issues the request nor the failure of the request changes them.
C2_AutoRefreshFailureSilent ==
    [][((lastOp'.op = "tick" \/ (ForecastRejected /\ StepRequest.auto))
            /\ StepRequest.active)
        => UNCHANGED <<weatherStatus, weatherError, weatherData>>]_vars

-----------------------------------------------------------------------------
(* C3 *)

\* C3: whenever forecast status is ready there is WeatherData and, its
\* dayOrder being non-empty, SelectedDay is one of its days.
C3_SelectedDayInDayOrder ==
    weatherStatus = "ready" =>
        /\ weatherData # <<>>
        /\ weatherData[1].dayOrder # <<>> =>
               \E i \in 1..Len(weatherData[1].dayOrder) :
                   selectedDay = weatherData[1].dayOrder[i]

\* A search has cleared the forecast and an auto-refresh of the running cycle
\* has brought it back: status ready, with a day of the new dayOrder selected.
C3_Witness ==
    /\ lastOp.op = "forecastResolve"
    /\ lastOp.arg[1].auto
    /\ lastOp.arg[1].active
    /\ weatherStatus = "ready"
    /\ searchStatus = "no-results"
    /\ weatherData[1].dayOrder = <<"d2", "d3">>
    /\ selectedDay = "d2"


-----------------------------------------------------------------------------
(* C4 *)

\* The payload a forecast response step delivered.
StepPayload ==
    [location |-> StepRequest.location, units |-> StepRequest.units,
     dayOrder |-> lastOp'.arg[2]]

\* This step applied the result of the initial fetch of the running cycle.
InitialResolved == ForecastResolved /\ StepRequest.active /\ ~StepRequest.auto
InitialRejected == ForecastRejected /\ StepRequest.active /\ ~StepRequest.auto

\* C4 as claimed: a successful initial fetch of the running cycle sets status
\* ready, WeatherData to the payload and SelectedDay to dayOrder[0], which is a
\* day of the payload whatever the payload; a failed one sets status error
\* and an error message.
C4_InitialFetch_AsClaimed ==
    [][/\ InitialResolved =>
            /\ weatherStatus' = "ready"
            /\ weatherData' = <<StepPayload>>
            /\ Len(StepPayload.dayOrder) > 0
            /\ selectedDay' = StepPayload.dayOrder[1]
       /\ InitialRejected =>
            /\ weatherStatus' = "error"
            /\ weatherError' # Null]_vars

\* C4 amended: SelectedDay becomes dayOrder[0] when the payload's dayOrder is
\* not empty, and null when it is empty; the rest as claimed.
C4_InitialFetch ==
    [][/\ InitialResolved =>
            /\ weatherStatus' = "ready"
            /\ weatherData' = <<StepPayload>>
            /\ selectedDay' = IF Len(StepPayload.dayOrder) > 0
                              THEN StepPayload.dayOrder[1] ELSE Null
       /\ InitialRejected =>
            /\ weatherStatus' = "error"
            /\ weatherError' # Null
            /\ weatherError' = IF lastOp'.arg[2].isError
                               THEN lastOp'.arg[2].message
                               ELSE "Unable to load forecast"]_vars

\* The initial fetch of a cycle started by a units change has succeeded: its
\* payload is shown and the first of its days is selected.
C4_Witness ==
    /\ lastOp.op = "forecastResolve"
    /\ lastOp.arg[1].active
    /\ ~lastOp.arg[1].auto
    /\ lastOp.arg[1].units = "imperial"
    /\ lastOp.arg[2] = <<"d2", "d3">>
    /\ weatherStatus = "ready"
    /\ weatherData[1].units = "imperial"
    /\ selectedDay = "d2"

-----------------------------------------------------------------------------
(* C5 *)

\* C5: a step that changes units or the selected location (or selects again)
\* while status is ready ends with status loading and applies no new data;
\* so no step leads from ready with the old pair's data to ready with the new.
C5_ResyncShowsLoading ==
    [][(weatherStatus = "ready"
            /\ (units' # units \/ selectedLocation' # selectedLocation \/ CycleRestarted))
        => /\ weatherStatus' = "loading"
           /\ weatherData' = weatherData \/ weatherData' = <<>>]_vars

\* Units have just been changed while a forecast was on display: status is
\* loading and the data on hand is still that of the old units.
C5_Witness ==
    /\ lastOp.op = "setUnits"
    /\ weatherStatus = "loading"
    /\ weatherData # <<>>
    /\ weatherData[1].units # units
    /\ selectedDay \in Range(weatherData[1].dayOrder)

-----------------------------------------------------------------------------
(* C6 *)

\* This step applied the result of an auto-refresh of the running cycle.
AutoResolved == ForecastResolved /\ StepRequest.active /\ StepRequest.auto

\* C6: a successful auto-refresh of the running cycle sets WeatherData to the
\* payload and status to ready, keeps SelectedDay if it is a day of the
\* payload and sets it to the payload's first day (none: null) otherwise.
C6_StickySelection ==
    [][AutoResolved =>
          /\ weatherData' = <<StepPayload>>
          /\ weatherStatus' = "ready"
          /\ selectedDay' =
                IF \E i \in 1..Len(StepPayload.dayOrder) : StepPayload.dayOrder[i] = selectedDay
                THEN selectedDay
                ELSE IF Len(StepPayload.dayOrder) > 0
                     THEN StepPayload.dayOrder[1] ELSE Null]_vars

\* An auto-refresh has succeeded and the selected day, not the first of the
\* new dayOrder, was kept.
C6_Witness ==
    /\ lastOp.op = "forecastResolve"
    /\ lastOp.arg[1].active
    /\ lastOp.arg[1].auto
    /\ lastOp.arg[2] = <<"d1", "d2">>
    /\ weatherData[1].dayOrder = <<"d1", "d2">>
    /\ selectedDay = "d2"

-----------------------------------------------------------------------------
(* C7 *)

\* The text consists of white space only (the empty text included).
Blank(text) == \A i \in 1..Len(text) : text[i] = " "

\* C7: submitting a query that is empty after trimming sets search status
\* no-results, empties the result list, clears WeatherData, sets forecast
\* status idle and issues no geocode request.
C7_EmptyQuery ==
    [][(lastOp'.op = "submit" /\ Blank(searchTerm)) =>
          /\ searchStatus' = "no-results"
          /\ searchResults' = <<>>
          /\ weatherData' = <<>>
          /\ weatherStatus' = "idle"
          /\ geocodeRequests' = geocodeRequests]_vars

\* A query of white space has just been submitted.
C7_Witness ==
    /\ lastOp.op = "submit"
    /\ searchTerm = <<" ">>
    /\ searchStatus = "no-results"
    /\ weatherStatus = "idle"
    /\ geocodeRequests = EmptyBag

-----------------------------------------------------------------------------
(* C8 *)

\* C8: a geocode response of one or more matches sets search status idle and
\* the result list to the matches, and leaves the selected location, the
\* stored location and search text, the forecast state and the requests of
\* the forecast cycle as they are.
C8_MatchesNotSelected ==
    [][(lastOp'.op = "geocodeResolve" /\ Len(lastOp'.arg[2]) >= 1) =>
          /\ searchStatus' = "idle"
          /\ searchResults' = lastOp'.arg[2]
          /\ UNCHANGED <<selectedLocation, units, storageVars, forecastVars,
                         forecastRequests, searchTerm>>]_vars

\* A single match has arrived while a forecast was on display: the match is
\* listed, not selected, and the forecast is still there.
C8_Witness ==
    /\ lastOp.op = "geocodeResolve"
    /\ Len(lastOp.arg[2]) = 1
    /\ searchResults = lastOp.arg[2]
    /\ searchStatus = "idle"
    /\ selectedLocation # searchResults[1]
    /\ weatherStatus = "ready"

-----------------------------------------------------------------------------
(* C9 *)

\* The effects of a selection step other than on the query text and the store:
\* the location is selected, the result list emptied, search status idle, and
\* a new cycle runs whose only request is the initial one for that location.
SelectionStarts(location) ==
    /\ selectedLocation' = location
    /\ searchResults' = <<>>
    /\ searchStatus' = "idle"
    /\ weatherStatus' = "loading"
    /\ BagCardinality(forecastRequests') = BagCardinality(forecastRequests) + 1
    /\ \E r \in BagToSet(forecastRequests') :
          /\ r = [auto |-> FALSE, active |-> TRUE, location |-> location, units |-> units]
          /\ CopiesIn(r, forecastRequests') = 1
          /\ \A q \in BagToSet(forecastRequests') : q.active => q = r

\* The initial fetch of the running cycle succeeding gives status ready and
\* the first day of its dayOrder (none: null).
InitialSuccessShows ==
    InitialResolved =>
        /\ weatherStatus' = "ready"
        /\ selectedDay' = IF Len(StepPayload.dayOrder) > 0
                          THEN StepPayload.dayOrder[1] ELSE Null

\* The item is the JSON text of this location.
HoldsLocation(item, location) ==
    /\ item # <<>>
    /\ JsonParses(item[1])
    /\ JsonParse(item[1]) = location

\* C9 as claimed: selectResult(location) selects the location, empties the
\* result list, sets search status idle, sets the query text to
\* "{name}, {country}", stores location and text, and starts a new cycle that
\* goes loading and then, its initial fetch succeeding, ready with dayOrder[0].
C9_SelectResult_AsClaimed ==
    [][/\ lastOp'.op = "selectResult" =>
            LET location == lastOp'.arg[1] IN
            /\ SelectionStarts(location)
            /\ searchTerm' = <<location.name, ",", " ", location.country>>
            /\ HoldsLocation(storedLocation', location)
            /\ storedSearchTerm' = <<searchTerm'>>
       /\ InitialSuccessShows]_vars

\* C9 amended: the query text is "{name}, {country}" when the country is not
\* empty and "{name}" when it is; the store receives the location and then the
\* text unless a write fails, which ends the writing and is not reported; the
\* rest as claimed.
C9_SelectResult ==
    [][/\ lastOp'.op = "selectResult" =>
            LET location == lastOp'.arg[1]
                outcome == lastOp'.arg[2]
                text == IF location.country # ""
                        THEN <<location.name, ",", " ", location.country>>
                        ELSE <<location.name>>
            IN
            /\ SelectionStarts(location)
            /\ searchTerm' = text
            /\ outcome = "both" =>
                  /\ HoldsLocation(storedLocation', location)
                  /\ storedSearchTerm' = <<text>>
            /\ outcome = "first" =>
                  /\ HoldsLocation(storedLocation', location)
                  /\ storedSearchTerm' = storedSearchTerm
            /\ outcome = "none" => UNCHANGED storageVars
       /\ InitialSuccessShows]_vars

\* A match without a country has just been selected and stored: the query
\* text is its name, and its forecast is loading.
C9_Witness ==
    /\ lastOp.op = "selectResult"
    /\ lastOp.arg = <<OtherLocation, "both">>
    /\ selectedLocation = OtherLocation
    /\ searchTerm = <<"Null Island">>
    /\ HoldsLocation(storedLocation, OtherLocation)
    /\ storedSearchTerm = <<searchTerm>>
    /\ searchResults = <<>>
    /\ weatherStatus = "loading"

-----------------------------------------------------------------------------
(* C10 *)

\* C10: a geocode failure for a submitted (non-empty) query sets search status
\* error, stores the failure's message or else "Unknown error", clears
\* WeatherData and sets forecast status idle.
C10_GeocodeFailure ==
    [][lastOp'.op = "geocodeReject" =>
          /\ Len(lastOp'.arg[1]) > 0
          /\ searchStatus' = "error"
          /\ searchError' = IF lastOp'.arg[2].isError
                            THEN lastOp'.arg[2].message ELSE "Unknown error"
          /\ searchError' # Null
          /\ weatherData' = <<>>
          /\ weatherStatus' = "idle"]_vars

\* The geocode adapter has just failed with a value that is no Error.
C10_Witness ==
    /\ lastOp.op = "geocodeReject"
    /\ ~lastOp.arg[2].isError
    /\ searchStatus = "error"
    /\ searchError = "Unknown error"
    /\ weatherData = <<>>
    /\ weatherStatus = "idle"

-----------------------------------------------------------------------------
(* C11 *)

\* The canonical text of a location: "{name}, {country}", the name alone when
\* the location has no country.
CanonicalText(location) ==
    IF Get(location, "country") \notin {"", Undefined}
    THEN <<Get(location, "name"), ",", " ", Get(location, "country")>>
    ELSE <<Get(location, "name")>>

\* The store reflects this selection (none: what the page found at startup).
StoreReflects(selection) ==
    IF selection = <<>>
    THEN <<storedLocation, storedSearchTerm>> = storedAtStartup
    ELSE /\ HoldsLocation(storedLocation, selection[1])
         /\ storedSearchTerm = <<CanonicalText(selection[1])>>

\* Editing the query text and submitting a search leave the store alone.
EditingNeverWrites ==
    [][lastOp'.op \in {"setSearchTerm", "submit", "geocodeResolve", "geocodeReject"}
           => UNCHANGED storageVars]_vars

\* C11 as claimed: while no storage write has failed, the store holds the
\* location and the canonical text of the last selectResult, or what the page
\* found at startup if there was none; editing and submitting never write.
C11_StoreIsLastSelectResult ==
    /\ [](~writeFailed => StoreReflects(lastSelectResult))
    /\ EditingNeverWrites

\* C11 amended: the selection the store reflects is the last selectResult or
\* the last "Try again", which selects the current location once more and so
\* stores it even if the page started from the default location.
C11_StoreIsLastSelection ==
    /\ [](~writeFailed => StoreReflects(lastSelection))
    /\ EditingNeverWrites

\* A match was selected and stored, then another text was typed and
\* submitted: the store still holds the selection.
C11_Witness ==
    /\ lastOp.op = "submit"
    /\ ~writeFailed
    /\ lastSelectResult = <<OtherLocation>>
    /\ searchTerm = <<" ", "Paris", " ">>
    /\ storedSearchTerm = <<<<"Null Island">>>>
    /\ HoldsLocation(storedLocation, OtherLocation)
    /\ <<storedLocation, storedSearchTerm>> # storedAtStartup

-----------------------------------------------------------------------------
(* C12 *)

\* The object has the fields every LocationMatch has (admin1 is optional).
IsLocationMatch(obj) ==
    \A key \in {"id", "name", "country", "latitude", "longitude", "timezone"} :
        Get(obj, key) # Undefined

\* The page has just been loaded, for the first time or by the reload timer.
Loaded == lastOp.op \in {"load", "reload"}

\* The item can be read and is the JSON text of a LocationMatch.
ValidStoredLocation(item, readable) ==
    /\ readable
    /\ item # <<>>
    /\ JsonParses(item[1])
    /\ IsLocationMatch(JsonParse(item[1]))

\* C12: after every page load, whatever localStorage holds and whether or not
\* it can be read, the selected location is the stored LocationMatch if the
\* stored value is one and the default location otherwise; the query text is
\* "San Francisco, United States" when no search text is stored; and no
\* failure is reported.
C12_StartupLocation ==
    Loaded =>
        /\ selectedLocation =
               IF ValidStoredLocation(storedLocation, lastOp.arg[1])
               THEN JsonParse(storedLocation[1])
               ELSE DEFAULT_LOCATION
        /\ storedSearchTerm = <<>> =>
               searchTerm = <<"San Francisco", ",", " ", "United States">>
        /\ searchStatus = "idle"
        /\ searchError = Null
        /\ weatherError = Null

-----------------------------------------------------------------------------
(* C13 *)

\* C13: the result list becomes non-empty only by a geocode response of one
\* or more matches, every submission of a query (empty or not) and every
\* selection empties it, and it is empty whenever search status is loading,
\* error or no-results.
C13_ResultListTransient ==
    /\ [](searchStatus \in {"loading", "error", "no-results"} => searchResults = <<>>)
    /\ [][/\ lastOp'.op \in {"submit", "selectResult"} => searchResults' = <<>>
          /\ (searchResults' # <<>> /\ searchResults' # searchResults) =>
                 (lastOp'.op = "geocodeResolve" /\ searchResults' = lastOp'.arg[2])]_vars

-----------------------------------------------------------------------------
(* C14 *)

\* The state a reload leaves, computed from the store: the stored location and
\* text if they can be read (and the location parses), the default location
\* and its text otherwise; nothing of the search, no WeatherData, and no call
\* in flight but the initial fetch of the new page.
ReloadedFromStore ==
    LET readable == lastOp'.arg[1]
        hasLocation == readable /\ storedLocation # <<>> /\ JsonParses(storedLocation[1])
        hasText == readable /\ storedSearchTerm # <<>>
    IN
    /\ UNCHANGED storageVars
    /\ selectedLocation' =
           IF hasLocation THEN JsonParse(storedLocation[1]) ELSE DEFAULT_LOCATION
    /\ searchTerm' =
           IF hasText THEN storedSearchTerm[1]
           ELSE <<"San Francisco", ",", " ", "United States">>
    /\ searchResults' = <<>>
    /\ searchStatus' = "idle"
    /\ searchError' = Null
    /\ units' = "metric"
    /\ weatherData' = <<>>
    /\ selectedDay' = Null
    /\ geocodeRequests' = EmptyBag
    /\ BagCardinality(forecastRequests') = 1
    /\ \A r \in BagToSet(forecastRequests') :
           r = [auto |-> FALSE, active |-> TRUE,
                location |-> selectedLocation', units |-> "metric"]

\* C14: the reload can happen in every state; it leaves the startup state
\* computed from the store, whatever text was in the search box, and none of
\* the calls that were awaiting a result is left to be applied.
C14_Reload ==
    /\ [](ENABLED Reload)
    /\ [][lastOp'.op = "reload" => ReloadedFromStore]_vars

\* The page has been reloaded while a typed text was not submitted, a search
\* was awaiting its matches and two forecast calls their results: the text of
\* the search box is the stored one again and only the new initial fetch is
\* in flight.
C14_Witness ==
    /\ lastOp.op = "reload"
    /\ lastOp.arg[1]
    /\ lastOp.arg[2].searchTerm = <<" ", "Paris", " ">>
    /\ lastOp.arg[2].geocodeRequests = 1
    /\ lastOp.arg[2].forecastRequests >= 2
    /\ storedSearchTerm # <<>>
    /\ searchTerm = storedSearchTerm[1]
    /\ searchStatus = "idle"
    /\ weatherData = <<>>
    /\ geocodeRequests = EmptyBag
    /\ BagCardinality(forecastRequests) = 1

-----------------------------------------------------------------------------
(* C15 *)

\* The initial fetch of the running cycle awaits its result.
InitialOutstanding ==
    \E r \in BagToSet(forecastRequests) : r.active /\ ~r.auto

\* C15 as claimed: no auto-refresh request is issued while the initial fetch
\* of the running cycle awaits its result.
C15_AutoRefreshAfterInitial ==
    [][lastOp'.op = "tick" => ~InitialOutstanding]_vars

\* C15 amended: the timer of a cycle is armed when the cycle starts; a tick
\* can come in every state of the page (here: until the operations of the
\* page life are used up), the initial fetch awaiting its result or not, and
\* every tick issues one auto-refresh request for the current pair.
C15_AutoRefreshFromCycleStart ==
    /\ [](opCount < MaxOps => ENABLED AutoRefreshTick)
    /\ [][lastOp'.op = "tick" =>
             forecastRequests' = forecastRequests (+) SetToBag(
                 {[auto |-> TRUE, active |-> TRUE,
                   location |-> selectedLocation, units |-> units]})]_vars

\* A tick has issued an auto-refresh request while the initial fetch of the
\* same cycle was still awaiting its result.
C15_Witness ==
    /\ lastOp.op = "tick"
    /\ InitialOutstanding
    /\ weatherStatus = "loading"
    /\ \E r \in BagToSet(forecastRequests) : r.active /\ r.auto

-----------------------------------------------------------------------------
(* C16 *)

\* Forecast calls awaiting their result, of the running cycle and of the
\* cycles torn down.
Outstanding == BagCardinality(forecastRequests)

\* C16: at most two forecast requests are outstanding in every reachable state.
C16_AtMostTwoOutstanding == Outstanding <= 2

-----------------------------------------------------------------------------
(* C17 *)

\* C17: within the running cycle every successful response is applied when it
\* arrives, whatever was applied before it: the initial response, arriving
\* when an auto-refresh of the same cycle has already made the status ready,
\* replaces WeatherData with its payload and sets SelectedDay to the first
\* day of its dayOrder, whatever day was selected.
C17_LastCompletedWins ==
    [][/\ (ForecastResolved /\ StepRequest.active) => weatherData' = <<StepPayload>>
       /\ (InitialResolved /\ weatherStatus = "ready") =>
              /\ selectedDay' = IF StepPayload.dayOrder # <<>>
                                THEN Head(StepPayload.dayOrder) ELSE Null
              /\ weatherStatus' = "ready"]_vars

\* Four operations after the page was loaded, nothing typed or searched and
\* no call left in flight: a tick, its response applied, the user choosing
\* the day d2, and then the initial response of the same cycle, whose payload
\* is shown with its first day d1 selected; d2 is forgotten.
C17_Witness ==
    /\ lastOp.op = "forecastResolve"
    /\ lastOp.arg[1].active
    /\ ~lastOp.arg[1].auto
    /\ lastOp.arg[2] = <<"d1", "d2">>
    /\ lastOp.arg[3] = "ready"
    /\ lastOp.arg[4] = "d2"
    /\ opCount = 4
    /\ searchTerm \notin TypedTexts
    /\ searchStatus = "idle"
    /\ geocodeRequests = EmptyBag
    /\ forecastRequests = EmptyBag
    /\ weatherStatus = "ready"
    /\ weatherData[1].dayOrder = <<"d1", "d2">>
    /\ selectedDay = "d1"

-----------------------------------------------------------------------------
(* C18 *)

\* A search has cleared the forecast and no cycle has started since: only
\* handleSearch sets the status idle, and every start of a cycle sets it loading.
ForecastCleared == weatherStatus = "idle" /\ weatherData = <<>>

\* C18: a forecast cleared by a search stays cleared until a match is selected
\* or the units change (or the page is reloaded): no tick and no response of
\* the cycle still running brings WeatherData or the status ready back.
C18_ClearedStaysCleared ==
    [][ForecastCleared =>
          \/ ForecastCleared'
          \/ lastOp'.op \in {"selectResult", "setUnits", "reload"}]_vars

-----------------------------------------------------------------------------
(* C19 *)

\* The calls awaiting their result whose cycle is running (TRUE) or torn down.
RequestsOf(active) ==
    [r \in {x \in BagToSet(forecastRequests) : x.active = active}
        |-> CopiesIn(r, forecastRequests)]

-----------------------------------------------------------------------------
(* C20 *)

\* C20: whenever forecast status is ready there is WeatherData, and it is the
\* payload of a call made for the selected location and the units in force.
C20_ReadyDataIsCurrent ==
    weatherStatus = "ready" =>
        /\ weatherData # <<>>
        /\ weatherData[1].location = selectedLocation
        /\ weatherData[1].units = units

\* The units were changed, the forecast of the new units is shown, and the
\* late answer of the call made for the old units has just been discarded.
C20_Witness ==
    /\ lastOp.op = "forecastResolve"
    /\ ~lastOp.arg[1].active
    /\ lastOp.arg[1].units = "metric"
    /\ lastOp.arg[3] = "ready"
    /\ units = "imperial"
    /\ weatherStatus = "ready"
    /\ weatherData # <<>>
    /\ weatherData[1].units = "imperial"
    /\ weatherData[1].location = selectedLocation

-----------------------------------------------------------------------------
(* Every forecast call gets its answer *)

\* fetchWeather after its await, fetchWeatherForecast resolved, when the
\* operations of the page life are used up: the answer arrives all the same.
LateForecastResolve(request, dayOrder) ==
    LET data == WeatherDataOf(request.location, request.units, dayOrder) IN
    /\ opCount >= MaxLiveOps
    /\ BagIn(request, forecastRequests)
    /\ forecastRequests' = forecastRequests (-) SetToBag({request})
    /\ IF Discarded(request)
       THEN UNCHANGED forecastVars
       ELSE /\ weatherData' = <<data>>
            /\ selectedDay' = IF ~request.auto
                              THEN FirstDayOrNull(data.dayOrder)
                              ELSE StickyDay(selectedDay, data.dayOrder)
            /\ weatherStatus' = "ready"
            /\ UNCHANGED weatherError
    /\ lastOp' = Op("forecastResolve",
                    <<request, dayOrder, weatherStatus, selectedDay, "late">>)
    /\ UNCHANGED <<searchVars, selectedLocation, units, storageVars, geocodeRequests,
                   selectionHistory, opCount>>

\* The same for fetchWeatherForecast rejected.
LateForecastReject(request, error) ==
    /\ opCount >= MaxLiveOps
    /\ BagIn(request, forecastRequests)
    /\ forecastRequests' = forecastRequests (-) SetToBag({request})
    /\ IF Discarded(request) \/ request.auto
       THEN UNCHANGED forecastVars
       ELSE /\ weatherStatus' = "error"
            /\ weatherError' = ErrorMessage(error, "Unable to load forecast")
            /\ UNCHANGED <<weatherData, selectedDay>>
    /\ lastOp' = Op("forecastReject", <<request, error>>)
    /\ UNCHANGED <<searchVars, selectedLocation, units, storageVars, geocodeRequests,
                   selectionHistory, opCount>>

\* The page with MaxLiveOps operations to a page life, answers not counted
\* once they are used up.
LiveNext ==
    \/ opCount < MaxLiveOps /\ Next
    \/ Reload
    \/ \E request \in BagToSet(forecastRequests), dayOrder \in DayOrders :
           LateForecastResolve(request, dayOrder)
    \/ \E request \in BagToSet(forecastRequests), error \in Thrown :
           LateForecastReject(request, error)

\* The locations a page can have selected, and the calls it can make.
SelectableLocations == LocationMatches \cup {JsonParse(EmptyObjectJson)}

ForecastCalls ==
    [auto : BOOLEAN, active : BOOLEAN,
     location : SelectableLocations, units : MeasurementSystems]

\* The call gets its answer, success or failure: it is taken out of the
\* calls awaiting one.
Completes(request) ==
    /\ BagIn(request, forecastRequests)
    /\ forecastRequests' = forecastRequests (-) SetToBag({request})

\* Every forecast call awaiting its answer eventually gets it.
LiveSpec ==
    /\ Init /\ [][LiveNext]_vars
    /\ \A request \in ForecastCalls : WF_forecastRequests(Completes(request))

-----------------------------------------------------------------------------
(* C21 *)

\* C21: every forecast call eventually getting its answer, and the page from
\* some time on not being reloaded (the pair then stops changing, a page life
\* being finite), forecast status never stays loading: every state with status
\* loading is followed by one with status ready, error or idle.
C21_LoadingEnds ==
    (<>[](lastOp.op # "reload")) =>
        ((weatherStatus = "loading") ~> (weatherStatus \in {"ready", "error", "idle"}))

\* The units were changed twice and the timer ticked, which used up the
\* operations of the page life; the four calls got their answers after that,
\* the initial fetch of the running cycle last: the status, loading until
\* then, is ready.
C21_Witness ==
    /\ lastOp.op = "forecastResolve"
    /\ Len(lastOp.arg) = 5
    /\ lastOp.arg[1].active
    /\ ~lastOp.arg[1].auto
    /\ lastOp.arg[3] = "loading"
    /\ opCount = MaxLiveOps
    /\ units = "metric"
    /\ forecastRequests = EmptyBag
    /\ geocodeRequests = EmptyBag
    /\ weatherStatus = "ready"

=============================================================================
